---- MODULE Spec2Model ----
(***************************************************************************)
(* DP road-graph path search of the planning module                        *)
(* (modules/planning/optimizer/dp_poly_path): DpPolyPathOptimizer::Process *)
(* and DPRoadGraph::FindPathTunnel with its stages Init, Generate          *)
(* (SamplePathWaypoints + forward DP + backtrack), the path stitcher, the  *)
(* Frenet-to-Cartesian conversion and compute_object_decision_from_path.   *)
(*                                                                         *)
(* Arc lengths, lateral offsets, costs and times are integers (multiples   *)
(* of the lattice units).  The reference line, the cost evaluator, the     *)
(* speed profile and the obstacles are external collaborators: every query *)
(* to them is answered by a nondeterministic choice from a bounded set.    *)
(***************************************************************************)
EXTENDS Integers, Sequences, FiniteSets

(* ------------------------------ bounds --------------------------------- *)
\* reference_line.map_path().accumulated_s().back(), and the largest
\* projected arc length of the initial point
ReferenceLineLength == 3
\* largest configured sample_level
MaxSampleLevel == 2
\* largest configured sample_points_num_each_level
MaxSamplePoints == 2
\* largest init_point.v()
MaxSpeed == 3
\* largest value returned by TrajectoryCost::calculate
MaxCost == 1
\* config_.step_length_min(), config_.step_length_max()
StepLengthMin == 1
StepLengthMax == 2
\* config_.lateral_sample_offset()
LateralSampleOffset == 1
\* largest configured path_resolution
MaxPathResolution == 2
\* FLAGS_static_decision_stop_buffer, FLAGS_static_decision_ignore_range
StaticDecisionStopBuffer == 1
StaticDecisionIgnoreRange == 2
\* FLAGS_dp_path_decision_buffer
DpPathDecisionBuffer == 1
\* number of static and of dynamic obstacles in *decision_data
MaxStaticObstacles == 1
MaxDynamicObstacles == 1
\* largest evaluate_times = floor(min(total_time, FLAGS_prediction_total_time)
\*                               / eval_time_interval)
MaxEvaluateTimes == 2
\* largest number of points of a discretized path handed to the decision pass
MaxPathPoints == 2

VARIABLES
  pc,              \* position in Process / FindPathTunnel
  is_init_,        \* DpPolyPathOptimizer::is_init_
  config_,         \* DpPolyPathConfig: sample_level,
                   \* sample_points_num_each_level, path_resolution
  init_point,      \* init_point_: its speed v and what the reference line
                   \* answers when it is projected (ok, s, l)
  init_sl_point_,  \* DPRoadGraph::init_sl_point_
  accumulated_s,   \* SamplePathWaypoints: accumulated_s
  level_distance,  \* SamplePathWaypoints: level_distance
  sample_i,        \* SamplePathWaypoints: loop counter i
  candidates,      \* SamplePathWaypoints: the (s, l) generated by the inner
                   \* loop of the latest iteration, before is_on_road
  road,            \* SamplePathWaypoints: the candidates for which
                   \* reference_line.is_on_road has answered true
  path_waypoints,  \* Generate: path_waypoints (points of SamplePathWaypoints)
  graph_nodes,     \* Generate: graph_nodes
  level,           \* Generate: loop counter level (1-based; 0 = not started)
  calc,            \* Generate: calc[level][i][j] is what
                   \* trajectory_cost.calculate returned for the edge from
                   \* node j of level - 1 to node i of level
  min_cost_path,   \* FindPathTunnel: min_cost_path
  frenet_path,     \* FindPathTunnel: frenet_path
  path_points,     \* FindPathTunnel: path_points
  path_data,       \* *path_data: the output container
  ego_sl_points,   \* compute_object_decision_from_path: ego_sl_points
  ego_bounding_box,\* compute_object_decision_from_path: ego_bounding_box, each
                   \* box named by the path point it was built from
  ego_sl_src,      \* for each entry of ego_sl_points, the index of the path
                   \* point whose projection it is
  static_obstacles,\* per static obstacle: the decisions appended to it and,
                   \* once it is scanned, what the reference line and its
                   \* bounding box answered
  speed,           \* evaluate_times and the first time index at which
                   \* get_speed_point_with_time fails (evaluate_times if none)
  dynamic_obstacles,\* per dynamic obstacle: the decisions appended to it
                   \* and, once judged, the time indices at which
                   \* DistanceTo < FLAGS_dynamic_decision_follow_range
  ret,             \* return value of FindPathTunnel: "none", "true", "false"
  status           \* Status returned by Process: "none", "OK", "PLANNING_ERROR"

(* ------------------------------ values --------------------------------- *)
SLPoint(s, l) == [s |-> s, l |-> l]

\* a default-constructed common::SLPoint
DefaultSL == SLPoint(0, 0)

\* a default-constructed QuinticPolynomialCurve1d
DefaultCurve == [l0 |-> 0, l1 |-> 0, len |-> 0]

\* QuinticPolynomialCurve1d(l0, 0, 0, l1, 0, 0, len)
QuinticPolynomialCurve1d(l0, l1, len) == [l0 |-> l0, l1 |-> l1, len |-> len]

\* DPRoadGraphNode(): no predecessor, no cost yet
EmptyNode ==
  [sl_point |-> DefaultSL, prev |-> 0, has_cost |-> FALSE, min_cost |-> 0,
   min_cost_curve |-> DefaultCurve]

\* DPRoadGraphNode(point_sl, nullptr)
NewNode(sl) == [EmptyNode EXCEPT !.sl_point = sl]

\* DPRoadGraphNode(point_sl, nullptr, cost)
RootNode(sl, cost) ==
  [EmptyNode EXCEPT !.sl_point = sl, !.has_cost = TRUE, !.min_cost = cost]

\* DPRoadGraphNode::UpdateCost: only a strict improvement replaces the stored
\* cost, curve and back-pointer (prev is the index of the predecessor in the
\* previous level, 0 is nullptr)
UpdateCost(node, prev, curve, cost) ==
  IF ~node.has_cost \/ cost < node.min_cost
  THEN [node EXCEPT !.has_cost = TRUE, !.min_cost = cost, !.prev = prev,
                    !.min_cost_curve = curve]
  ELSE node

Max2(a, b) == IF a > b THEN a ELSE b
Min2(a, b) == IF a < b THEN a ELSE b

(* -------------------------- SamplePathWaypoints ------------------------ *)
\* level_distance = fmax(step_length_min, fmin(v, step_length_max))
LevelDistance(v) == Max2(StepLengthMin, Min2(v, StepLengthMax))

\* num = static_cast<int32_t>(sample_points_num_each_level / 2)
SampleNum(count) == count \div 2

\* SampleCandidates with the loop bound j < num
SampleCandidates_OffByOne(count, s) ==
  [k \in 1..(2 * SampleNum(count)) |->
     SLPoint(s, LateralSampleOffset * (k - 1 - SampleNum(count)))]

\* the inner loop: for (j = -num; j < num + 1; ++j) MakeSLPoint(s, offset * j)
SampleCandidates(count, s) ==
  [k \in 1..(2 * SampleNum(count) + 1) |->
     SLPoint(s, LateralSampleOffset * (k - 1 - SampleNum(count)))]

RECURSIVE Filter(_, _)
\* the points of cand, in order, whose index is in keep
Filter(cand, keep) ==
  IF cand = <<>> THEN <<>>
  ELSE LET n == Len(cand)
           head == Filter(SubSeq(cand, 1, n - 1), keep)
       IN IF n \in keep THEN Append(head, cand[n]) ELSE head

\* LevelPoints without the is_on_road test
LevelPoints_NoFilter(cand, on_road) == cand

\* level_points: the candidates for which reference_line.is_on_road holds
\* (on_road is the set of indices of the candidates that are on the road)
LevelPoints(cand, on_road) == Filter(cand, on_road)

\* if (!level_points.empty()) points->push_back(level_points)
PushLevel(points, level_points) ==
  IF level_points # <<>> THEN Append(points, level_points) ELSE points

(* ------------------------------- Generate ------------------------------ *)
\* path_waypoints.insert(begin, {init_sl_point_}); graph_nodes(size);
\* graph_nodes[0].push_back(DPRoadGraphNode(init_sl_point_, nullptr, 0.0))
InitialGraph(n, root_sl) ==
  [k \in 1..n |-> IF k = 1 THEN <<RootNode(root_sl, 0)>> ELSE <<>>]

\* EdgeTotal without the cost accumulated so far
EdgeTotal_NoAccumulate(calculated, prev_node) == calculated

\* cost = trajectory_cost.calculate(curve, prev.s, cur.s) + prev->min_cost
EdgeTotal(calculated, prev_node) == calculated + prev_node.min_cost

RECURSIVE RelaxFrom(_, _, _, _)
\* the loop over j: cur_node.UpdateCost(prev_dp_node, curve, cost) for the
\* predecessors 1..j, in that order
RelaxFrom(cur_sl, prev_dp_nodes, costs, j) ==
  IF j = 0 THEN NewNode(cur_sl)
  ELSE LET prev_dp_node == prev_dp_nodes[j]
           curve == QuinticPolynomialCurve1d(prev_dp_node.sl_point.l, cur_sl.l,
                                             cur_sl.s - prev_dp_node.sl_point.s)
       IN UpdateCost(RelaxFrom(cur_sl, prev_dp_nodes, costs, j - 1), j, curve,
                     EdgeTotal(costs[j], prev_dp_node))

\* one iteration of the loop over i: the node pushed for cur_sl_point
RelaxedNode(cur_sl, prev_dp_nodes, costs) ==
  RelaxFrom(cur_sl, prev_dp_nodes, costs, Len(prev_dp_nodes))

RECURSIVE FakeHead(_, _)
\* fake_head.UpdateCost(&cur_dp_node, cur_dp_node.min_cost_curve,
\* cur_dp_node.min_cost) for the nodes 1..i of the last level
FakeHead(last_dp_nodes, i) ==
  IF i = 0 THEN EmptyNode
  ELSE UpdateCost(FakeHead(last_dp_nodes, i - 1), i,
                  last_dp_nodes[i].min_cost_curve, last_dp_nodes[i].min_cost)

RECURSIVE BackTrack(_, _, _)
\* while (min_cost_node->min_cost_prev_node) push_back; then std::reverse:
\* the chain ending in node idx of level lv, root first
BackTrack(nodes, lv, idx) ==
  IF idx = 0 \/ lv = 0 THEN <<>>
  ELSE Append(BackTrack(nodes, lv - 1, nodes[lv][idx].prev), nodes[lv][idx])

\* "find best path" of Generate
MinCostPath(nodes) ==
  LET last == Len(nodes)
  IN BackTrack(nodes, last, FakeHead(nodes[last], Len(nodes[last])).prev)

(* ---------------------------- path stitcher ---------------------------- *)
Pow(x, n) == IF n = 0 THEN 1 ELSE IF n = 1 THEN x ELSE IF n = 2 THEN x * x
             ELSE IF n = 3 THEN x * x * x ELSE IF n = 4 THEN x * x * x * x
             ELSE x * x * x * x * x

\* QuinticPolynomialCurve1d::evaluate(order, x) for the curve with zero first
\* and second derivative at both ends, as the exact fraction num / den:
\* l(x) = l0 + (l1 - l0) * (10 t^3 - 15 t^4 + 6 t^5), t = x / len
Evaluate(curve, order, x) ==
  LET d == curve.l1 - curve.l0
      n == curve.len
  IN IF order = 0
     THEN [num |-> curve.l0 * Pow(n, 5)
                   + d * (10 * Pow(x, 3) * Pow(n, 2) - 15 * Pow(x, 4) * n
                          + 6 * Pow(x, 5)),
           den |-> Pow(n, 5)]
     ELSE IF order = 1
     THEN [num |-> d * (30 * Pow(x, 2) * Pow(n, 2) - 60 * Pow(x, 3) * n
                        + 30 * Pow(x, 4)),
           den |-> Pow(n, 5)]
     ELSE [num |-> d * (60 * x * Pow(n, 2) - 180 * Pow(x, 2) * n
                        + 120 * Pow(x, 3)),
           den |-> Pow(n, 5)]

\* const double path_resolution = config_.path_resolution()
PathResolution == config_.path_resolution

\* the common::FrenetFramePoint pushed at local arc length current_s
FrenetFramePoint(curve, acc_s, current_s) ==
  [s |-> acc_s + current_s, l |-> Evaluate(curve, 0, current_s),
   dl |-> Evaluate(curve, 1, current_s), ddl |-> Evaluate(curve, 2, current_s)]

\* Double::compare(a, b): negative, zero or positive as a is below, equal to
\* or above b
DoubleCompare(a, b) == IF a < b THEN 0 - 1 ELSE IF a > b THEN 1 ELSE 0

RECURSIVE SegmentSamples_WithEndpoint(_, _, _, _)
\* the loop of a segment, were it to run up to and including the endpoint
SegmentSamples_WithEndpoint(curve, acc_s, current_s, path_length) ==
  IF DoubleCompare(current_s, path_length) <= 0
  THEN <<FrenetFramePoint(curve, acc_s, current_s)>>
       \o SegmentSamples_WithEndpoint(curve, acc_s,
                                      current_s + PathResolution, path_length)
  ELSE <<>>

RECURSIVE SegmentSamples(_, _, _, _)
\* while (Double::compare(current_s, path_length) < 0.0) { push_back;
\* current_s += path_resolution; }
SegmentSamples(curve, acc_s, current_s, path_length) ==
  IF DoubleCompare(current_s, path_length) < 0
  THEN <<FrenetFramePoint(curve, acc_s, current_s)>>
       \o SegmentSamples(curve, acc_s, current_s + PathResolution, path_length)
  ELSE <<>>

RECURSIVE StitchFrom(_, _, _)
\* the loop over i of FindPathTunnel, from segment i on, with accumulated_s
StitchFrom(chain, i, acc_s) ==
  IF i > Len(chain) THEN <<>>
  ELSE LET path_length == chain[i].sl_point.s - chain[i - 1].sl_point.s
       IN SegmentSamples(chain[i].min_cost_curve, acc_s, 0, path_length)
          \o StitchFrom(chain, i + 1, acc_s + path_length)

\* frenet_path of FindPathTunnel: accumulated_s starts at init_sl_point_.s()
Stitch(chain, init_sl) == StitchFrom(chain, 2, init_sl.s)

\* the PathPoint built from frenet_path[k]: its position is what
\* get_point_in_Cartesian_frame answered for that point
PathPoint(k) == [xy |-> k]

\* PathData before the call: neither path has been set
EmptyPathData ==
  [frenet_set |-> FALSE, frenet_path |-> <<>>,
   discretized_set |-> FALSE, discretized_path |-> <<>>]

\* path_data->set_frenet_path(tunnel)
SetFrenetPath(pd, path) == [pd EXCEPT !.frenet_set = TRUE, !.frenet_path = path]

\* path_data->set_discretized_path(path_points)
SetDiscretizedPath(pd, points) ==
  [pd EXCEPT !.discretized_set = TRUE, !.discretized_path = points]

(* -------------------- compute_object_decision_from_path ---------------- *)
Abs(x) == IF x < 0 THEN 0 - x ELSE x

ObjectStop ==
  [type |-> "stop", distance_s |-> DpPathDecisionBuffer,
   reason_code |-> "STOP_REASON_OBSTACLE"]
ObjectNudge(side) ==
  [type |-> "nudge", distance_l |-> DpPathDecisionBuffer, nudge_type |-> side]
ObjectIgnore == [type |-> "ignore"]
ObjectFollow == [type |-> "follow", distance_s |-> DpPathDecisionBuffer]

\* ego_sl.s() < obs_sl.s() - half_length || ego_sl.s() > obs_sl.s() + half_length
OutOfRange(ego_sl, obs_sl, half_length) ==
  ego_sl.s < obs_sl.s - half_length \/ ego_sl.s > obs_sl.s + half_length

RECURSIVE ScanFrom_NudgeFirst(_, _, _, _, _, _)
\* ScanFrom with the lateral-gap test made before the overlap test
ScanFrom_NudgeFirst(obs_sl, half_length, overlap, sl_points, boxes, j) ==
  IF j > Len(sl_points) THEN [pushed |-> <<>>, ignore |-> TRUE]
  ELSE LET ego_sl == sl_points[j]
           diff_l == obs_sl.l - ego_sl.l
       IN IF OutOfRange(ego_sl, obs_sl, half_length)
          THEN ScanFrom_NudgeFirst(obs_sl, half_length, overlap, sl_points,
                                   boxes, j + 1)
          ELSE IF diff_l > 0 /\ Abs(diff_l) < StaticDecisionIgnoreRange
          THEN [pushed |-> <<ObjectNudge("RIGHT_NUDGE")>>, ignore |-> FALSE]
          ELSE IF diff_l < 0 /\ Abs(diff_l) < StaticDecisionIgnoreRange
          THEN [pushed |-> <<ObjectNudge("LEFT_NUDGE")>>, ignore |-> FALSE]
          ELSE IF boxes[j] \in overlap
                  /\ Abs(obs_sl.l) < StaticDecisionStopBuffer
          THEN [pushed |-> <<ObjectStop>>, ignore |-> FALSE]
          ELSE ScanFrom_NudgeFirst(obs_sl, half_length, overlap, sl_points,
                                   boxes, j + 1)

RECURSIVE ScanFrom(_, _, _, _, _, _)
\* the loop over j for one static obstacle, from index j on: the decisions
\* pushed and the flag ignore.  overlap is the set of boxes (path point
\* indices) for which static_obstacle_box.HasOverlap answers true.
ScanFrom(obs_sl, half_length, overlap, sl_points, boxes, j) ==
  IF j > Len(sl_points) THEN [pushed |-> <<>>, ignore |-> TRUE]
  ELSE LET ego_sl == sl_points[j]
           diff_l == obs_sl.l - ego_sl.l
       IN IF OutOfRange(ego_sl, obs_sl, half_length)
          THEN ScanFrom(obs_sl, half_length, overlap, sl_points, boxes, j + 1)
          ELSE IF boxes[j] \in overlap
                  /\ Abs(obs_sl.l) < StaticDecisionStopBuffer
          THEN [pushed |-> <<ObjectStop>>, ignore |-> FALSE]
          ELSE IF diff_l > 0 /\ Abs(diff_l) < StaticDecisionIgnoreRange
          THEN [pushed |-> <<ObjectNudge("RIGHT_NUDGE")>>, ignore |-> FALSE]
          ELSE IF diff_l < 0 /\ Abs(diff_l) < StaticDecisionIgnoreRange
          THEN [pushed |-> <<ObjectNudge("LEFT_NUDGE")>>, ignore |-> FALSE]
          ELSE ScanFrom(obs_sl, half_length, overlap, sl_points, boxes, j + 1)

\* obs_sl after the projection of the obstacle's centre: a failed projection
\* is only logged and leaves the default-constructed obs_sl
ObsSL(proj_ok, proj_sl) == IF proj_ok THEN proj_sl ELSE DefaultSL

\* StaticDecision with "ignore = false" forgotten: Ignore is appended always
StaticDecision_AlwaysIgnore(proj_ok, proj_sl, half_length, overlap, sl_points, boxes) ==
  ScanFrom(ObsSL(proj_ok, proj_sl), half_length, overlap, sl_points, boxes,
           1).pushed \o <<ObjectIgnore>>

\* one iteration of the loop over the static obstacles: what is appended to
\* the obstacle's decisions
StaticDecision(proj_ok, proj_sl, half_length, overlap, sl_points, boxes) ==
  LET scan == ScanFrom(ObsSL(proj_ok, proj_sl), half_length, overlap,
                       sl_points, boxes, 1)
  IN IF scan.ignore THEN scan.pushed \o <<ObjectIgnore>> ELSE scan.pushed

\* fill_ego_by_time: the number of boxes pushed; the speed query fails first
\* at time index fail_at (fail_at = evaluate_times: it never fails)
FillEgoByTime(evaluate_times, fail_at) ==
  IF fail_at < evaluate_times THEN fail_at ELSE evaluate_times

\* the loop "for (time = 0; time <= evaluate_times; ++time)": the number of
\* boxes of obstacle_by_time
ObstacleByTime(evaluate_times) == evaluate_times + 1

RECURSIVE JudgeFrom(_, _, _)
\* "judge for collision": the loop over k (0-based) on n matched boxes
JudgeFrom(close, n, k) ==
  IF k >= n THEN <<>>
  ELSE IF k \in close THEN <<ObjectFollow>> ELSE JudgeFrom(close, n, k + 1)

\* one iteration of the loop over the dynamic obstacles: what is appended
DynamicDecision(evaluate_times, fail_at, close) ==
  IF ObstacleByTime(evaluate_times) # FillEgoByTime(evaluate_times, fail_at)
  THEN <<>>
  ELSE JudgeFrom(close, ObstacleByTime(evaluate_times), 0)

(* ------------------------------- inputs -------------------------------- *)
\* what get_point_in_frenet_frame may answer for the initial point
InitProjections ==
  {[ok |-> FALSE, sl |-> DefaultSL]}
  \cup {[ok |-> TRUE, sl |-> SLPoint(s, 1)] : s \in 0..ReferenceLineLength}

\* what get_point_in_frenet_frame may answer for a path point or an obstacle
\* centre when it succeeds: a path point at the obstacle's station or one past
\* it, left of, on or right of the reference line
EgoFrenet == {SLPoint(s, l) : s \in {1, 2}, l \in {-1, 0, 1}}
ObstacleFrenet == {SLPoint(1, l) : l \in {0, 1}}
\* static_obstacle_box.half_length()
HalfLengths == {0, 1}
\* the answers the end-to-end specification draws from
EgoFrenetOne == {SLPoint(1, 1)}
ObstacleFrenetOne == {SLPoint(1, 0)}
HalfLengthsOne == {1}

\* the indices a candidate of a station can have
CandidateIndices == 1..(2 * SampleNum(MaxSamplePoints) + 1)

\* the boxes of ego_bounding_box, and the two extreme answers of HasOverlap
BoxesOf(boxes) == {boxes[j] : j \in 1..Len(boxes)}
NoneOrAll(boxes) == {{}, BoxesOf(boxes)}

NewStaticObstacle ==
  [decisions |-> <<>>, scanned |-> FALSE, proj_ok |-> FALSE,
   proj_sl |-> DefaultSL, half_length |-> 0, overlap |-> {}]
NewDynamicObstacle == [decisions |-> <<>>, judged |-> FALSE, close |-> {}]

vars ==
  <<pc, is_init_, config_, init_point, init_sl_point_, accumulated_s,
    level_distance, sample_i, candidates, road, path_waypoints, graph_nodes,
    level,
    calc, min_cost_path, frenet_path, path_points, path_data, ego_sl_points,
    ego_bounding_box, ego_sl_src, static_obstacles, speed, dynamic_obstacles,
    ret, status>>

inputVars == <<is_init_, config_, init_point>>
samplerVars == <<accumulated_s, level_distance, sample_i, candidates, road>>
graphVars == <<graph_nodes, level, calc>>
decisionVars ==
  <<ego_sl_points, ego_bounding_box, ego_sl_src, static_obstacles, speed,
    dynamic_obstacles>>

\* the state before Process / FindPathTunnel has done anything, with the
\* given numbers of static and dynamic obstacles in *decision_data
Fresh(n_static, n_dynamic) ==
  /\ init_sl_point_ = DefaultSL
  /\ accumulated_s = 0 /\ level_distance = 0 /\ sample_i = 0
  /\ candidates = <<>> /\ road = {} /\ path_waypoints = <<>>
  /\ graph_nodes = <<>> /\ level = 0 /\ calc = <<>>
  /\ min_cost_path = <<>> /\ frenet_path = <<>> /\ path_points = <<>>
  /\ ego_sl_points = <<>> /\ ego_bounding_box = <<>> /\ ego_sl_src = <<>>
  /\ speed = [evaluate_times |-> 0, fail_at |-> 0]
  /\ static_obstacles = [k \in 1..n_static |-> NewStaticObstacle]
  /\ dynamic_obstacles = [k \in 1..n_dynamic |-> NewDynamicObstacle]
  /\ ret = "none" /\ status = "none"

Init ==
  /\ pc = "Process"
  /\ is_init_ \in BOOLEAN
  /\ config_ \in [sample_level : 1..MaxSampleLevel,
                  sample_points_num_each_level : 1..MaxSamplePoints,
                  path_resolution : 1..MaxPathResolution]
  /\ init_point \in [v : 0..MaxSpeed, proj : InitProjections]
  /\ path_data = EmptyPathData
  /\ Fresh(MaxStaticObstacles, MaxDynamicObstacles)

(* ------------------------------- actions ------------------------------- *)
\* DpPolyPathOptimizer::Process up to the call of FindPathTunnel
Process ==
  /\ pc = "Process"
  /\ IF ~is_init_
     THEN status' = "PLANNING_ERROR" /\ pc' = "done"
     ELSE status' = status /\ pc' = "Init"
  /\ UNCHANGED <<inputVars, init_sl_point_, samplerVars, path_waypoints,
                 graphVars, min_cost_path, frenet_path, path_points, path_data,
                 decisionVars, ret>>

\* GraphInit with the result of Init not tested
GraphInit_IgnoreFailure ==
  /\ pc = "Init"
  /\ init_sl_point_' = init_point.proj.sl /\ pc' = "Sample"
  /\ UNCHANGED <<inputVars, samplerVars, path_waypoints, graphVars,
                 min_cost_path, frenet_path, path_points, path_data,
                 decisionVars, ret, status>>

\* DPRoadGraph::Init and the test of its result in FindPathTunnel
GraphInit ==
  /\ pc = "Init"
  /\ IF ~init_point.proj.ok
     THEN ret' = "false" /\ pc' = "Return" /\ UNCHANGED init_sl_point_
     ELSE init_sl_point_' = init_point.proj.sl /\ pc' = "Sample"
          /\ UNCHANGED ret
  /\ UNCHANGED <<inputVars, samplerVars, path_waypoints, graphVars,
                 min_cost_path, frenet_path, path_points, path_data,
                 decisionVars, status>>

\* SamplePathWaypoints up to its loop (the same point is projected onto the
\* same reference line as in Init); a failure makes Generate and
\* FindPathTunnel return false
SampleBegin ==
  /\ pc = "Sample"
  /\ IF ~init_point.proj.ok
     THEN ret' = "false" /\ pc' = "Return"
          /\ UNCHANGED <<accumulated_s, level_distance>>
     ELSE /\ level_distance' = LevelDistance(init_point.v)
          /\ accumulated_s' = init_point.proj.sl.s
          /\ pc' = "SampleLoop" /\ UNCHANGED ret
  /\ UNCHANGED <<inputVars, init_sl_point_, sample_i, candidates, road,
                 path_waypoints, graphVars, min_cost_path, frenet_path,
                 path_points, path_data, decisionVars, status>>

\* i < config_.sample_level() && accumulated_s < reference_line_length
SampleMore ==
  sample_i < config_.sample_level /\ accumulated_s < ReferenceLineLength

\* one iteration of the loop of SamplePathWaypoints; roads are the answers
\* is_on_road may give: each a set of candidate indices that are on the road
SampleIter(roads) ==
  /\ pc = "SampleLoop" /\ SampleMore
  /\ accumulated_s' = accumulated_s + level_distance
  /\ candidates' = SampleCandidates(config_.sample_points_num_each_level,
                                    Min2(accumulated_s', ReferenceLineLength))
  /\ \E on_road \in {r \cap (1..Len(candidates')) : r \in roads} :
       /\ path_waypoints' =
            PushLevel(path_waypoints, LevelPoints(candidates', on_road))
       /\ road' = road \cup {candidates'[k] : k \in on_road}
  /\ sample_i' = sample_i + 1
  /\ UNCHANGED <<pc, inputVars, init_sl_point_, level_distance, graphVars,
                 min_cost_path, frenet_path, path_points, path_data,
                 decisionVars, ret, status>>

\* the loop ends: SamplePathWaypoints returns true
SampleEnd ==
  /\ pc = "SampleLoop" /\ ~SampleMore
  /\ pc' = "Build"
  /\ UNCHANGED <<inputVars, init_sl_point_, samplerVars, path_waypoints,
                 graphVars, min_cost_path, frenet_path, path_points, path_data,
                 decisionVars, ret, status>>

\* Generate between SamplePathWaypoints and the loop over the levels
Build ==
  /\ pc = "Build"
  /\ path_waypoints' = <<(<<init_sl_point_>>)>> \o path_waypoints
  /\ graph_nodes' = InitialGraph(Len(path_waypoints'), init_sl_point_)
  /\ calc' = [k \in 1..Len(path_waypoints') |-> <<>>]
  /\ level' = 2
  /\ pc' = "Relax"
  /\ UNCHANGED <<inputVars, init_sl_point_, samplerVars, min_cost_path,
                 frenet_path, path_points, path_data, decisionVars, ret,
                 status>>

\* one iteration of the loop over i: the next point of the level is pushed
\* and relaxed against every node of the previous level; cost_values are the
\* values trajectory_cost.calculate may return
RelaxNode(cost_values) ==
  /\ pc = "Relax" /\ level <= Len(path_waypoints)
  /\ Len(graph_nodes[level]) < Len(path_waypoints[level])
  /\ LET cur_sl_point == path_waypoints[level][Len(graph_nodes[level]) + 1]
         prev_dp_nodes == graph_nodes[level - 1]
     IN \E costs \in [1..Len(prev_dp_nodes) -> cost_values] :
          /\ graph_nodes' =
               [graph_nodes EXCEPT ![level] =
                  Append(@, RelaxedNode(cur_sl_point, prev_dp_nodes, costs))]
          /\ calc' = [calc EXCEPT ![level] = Append(@, costs)]
  /\ UNCHANGED <<pc, inputVars, init_sl_point_, samplerVars, path_waypoints,
                 level, min_cost_path, frenet_path, path_points, path_data,
                 decisionVars, ret, status>>

\* the loop over i ends: ++level
LevelDone ==
  /\ pc = "Relax" /\ level <= Len(path_waypoints)
  /\ Len(graph_nodes[level]) = Len(path_waypoints[level])
  /\ level' = level + 1
  /\ UNCHANGED <<pc, inputVars, init_sl_point_, samplerVars, path_waypoints,
                 graph_nodes, calc, min_cost_path, frenet_path, path_points,
                 path_data, decisionVars, ret, status>>

\* "find best path": Generate returns true
FindBest ==
  /\ pc = "Relax" /\ level > Len(path_waypoints)
  /\ min_cost_path' = MinCostPath(graph_nodes)
  /\ pc' = "Stitch"
  /\ UNCHANGED <<inputVars, init_sl_point_, samplerVars, path_waypoints,
                 graphVars, frenet_path, path_points, path_data, decisionVars,
                 ret, status>>

\* FindPathTunnel from the return of Generate to set_frenet_path; the locals
\* of Generate and SamplePathWaypoints are gone
StitchPath ==
  /\ pc = "Stitch"
  /\ frenet_path' = Stitch(min_cost_path, init_sl_point_)
  /\ path_data' = SetFrenetPath(path_data, frenet_path')
  /\ accumulated_s' = 0 /\ level_distance' = 0 /\ sample_i' = 0
  /\ candidates' = <<>> /\ road' = {} /\ path_waypoints' = <<>>
  /\ graph_nodes' = <<>> /\ level' = 0 /\ calc' = <<>>
  /\ pc' = "Convert"
  /\ UNCHANGED <<inputVars, init_sl_point_, min_cost_path, path_points,
                 decisionVars, ret, status>>

\* one iteration of the conversion loop: get_point_in_Cartesian_frame
\* succeeds and the point is pushed, or it fails and FindPathTunnel returns
\* false
ConvertPoint ==
  /\ pc = "Convert" /\ Len(path_points) < Len(frenet_path)
  /\ \E ok \in BOOLEAN :
       IF ok
       THEN /\ path_points' = Append(path_points, PathPoint(Len(path_points) + 1))
            /\ UNCHANGED <<pc, ret>>
       ELSE ret' = "false" /\ pc' = "Return" /\ UNCHANGED path_points
  /\ UNCHANGED <<inputVars, init_sl_point_, samplerVars, path_waypoints,
                 graphVars, min_cost_path, frenet_path, path_data,
                 decisionVars, status>>

\* the conversion loop ends: set_discretized_path
ConvertDone ==
  /\ pc = "Convert" /\ Len(path_points) = Len(frenet_path)
  /\ path_data' = SetDiscretizedPath(path_data, path_points)
  /\ pc' = "Decide"
  /\ UNCHANGED <<inputVars, init_sl_point_, samplerVars, path_waypoints,
                 graphVars, min_cost_path, frenet_path, path_points,
                 decisionVars, ret, status>>

\* the static obstacle the loop over i is at (0: the loop has ended)
NextStatic ==
  IF \E i \in 1..Len(static_obstacles) : ~static_obstacles[i].scanned
  THEN CHOOSE i \in 1..Len(static_obstacles) :
         /\ ~static_obstacles[i].scanned
         /\ \A k \in 1..(i - 1) : static_obstacles[k].scanned
  ELSE 0

\* the dynamic obstacle the loop over i is at (0: the loop has ended)
NextDynamic ==
  IF \E i \in 1..Len(dynamic_obstacles) : ~dynamic_obstacles[i].judged
  THEN CHOOSE i \in 1..Len(dynamic_obstacles) :
         /\ ~dynamic_obstacles[i].judged
         /\ \A k \in 1..(i - 1) : dynamic_obstacles[k].judged
  ELSE 0

\* one iteration of the loop over the points of the discretized path: the box
\* is pushed always, the Frenet point only when the projection succeeds
ProjectEgo(answers) ==
  /\ pc = "Decide"
  /\ Len(ego_bounding_box) < Len(path_data.discretized_path)
  /\ LET k == Len(ego_bounding_box) + 1
     IN /\ ego_bounding_box' = Append(ego_bounding_box, k)
        /\ \/ UNCHANGED <<ego_sl_points, ego_sl_src>>
           \/ \E ego_sl \in answers :
                /\ ego_sl_points' = Append(ego_sl_points, ego_sl)
                /\ ego_sl_src' = Append(ego_sl_src, k)
  /\ UNCHANGED <<pc, inputVars, init_sl_point_, samplerVars, path_waypoints,
                 graphVars, min_cost_path, frenet_path, path_points, path_data,
                 static_obstacles, speed, dynamic_obstacles, ret, status>>

\* one iteration of the loop over the static obstacles
StaticObstacle(answers, half_lengths, overlaps) ==
  /\ pc = "Decide"
  /\ Len(ego_bounding_box) = Len(path_data.discretized_path)
  /\ NextStatic # 0
  /\ \E proj_ok \in BOOLEAN, half_length \in half_lengths,
        overlap \in overlaps :
       \E proj_sl \in IF proj_ok THEN answers ELSE {DefaultSL} :
         static_obstacles' =
           [static_obstacles EXCEPT ![NextStatic] =
              [decisions |->
                 @.decisions \o StaticDecision(proj_ok, proj_sl, half_length,
                                               overlap, ego_sl_points,
                                               ego_bounding_box),
               scanned |-> TRUE, proj_ok |-> proj_ok, proj_sl |-> proj_sl,
               half_length |-> half_length, overlap |-> overlap]]
  /\ UNCHANGED <<pc, inputVars, init_sl_point_, samplerVars, path_waypoints,
                 graphVars, min_cost_path, frenet_path, path_points, path_data,
                 ego_sl_points, ego_bounding_box, ego_sl_src, speed,
                 dynamic_obstacles, ret, status>>

\* between the two loops: total_time and evaluate_times; what the speed
\* profile answers at each time stamp is the same for every obstacle
DynamicBegin(times) ==
  /\ pc = "Decide"
  /\ Len(ego_bounding_box) = Len(path_data.discretized_path)
  /\ NextStatic = 0
  /\ \E evaluate_times \in times :
       \E fail_at \in 0..evaluate_times :
         speed' = [evaluate_times |-> evaluate_times, fail_at |-> fail_at]
  /\ pc' = "Dynamic"
  /\ UNCHANGED <<inputVars, init_sl_point_, samplerVars, path_waypoints,
                 graphVars, min_cost_path, frenet_path, path_points, path_data,
                 ego_sl_points, ego_bounding_box, ego_sl_src, static_obstacles,
                 dynamic_obstacles, ret, status>>

\* one iteration of the loop over the dynamic obstacles
DynamicObstacle(closes) ==
  /\ pc = "Dynamic" /\ NextDynamic # 0
  /\ \E close \in closes :
       dynamic_obstacles' =
         [dynamic_obstacles EXCEPT ![NextDynamic] =
            [decisions |->
               @.decisions \o DynamicDecision(speed.evaluate_times,
                                              speed.fail_at, close),
             judged |-> TRUE, close |-> close]]
  /\ UNCHANGED <<pc, inputVars, init_sl_point_, samplerVars, path_waypoints,
                 graphVars, min_cost_path, frenet_path, path_points, path_data,
                 ego_sl_points, ego_bounding_box, ego_sl_src, static_obstacles,
                 speed, ret, status>>

\* compute_object_decision_from_path returns true and so does FindPathTunnel
DecideDone ==
  /\ pc = "Dynamic" /\ NextDynamic = 0
  /\ ret' = "true" /\ pc' = "Return"
  /\ UNCHANGED <<inputVars, init_sl_point_, samplerVars, path_waypoints,
                 graphVars, min_cost_path, frenet_path, path_points, path_data,
                 decisionVars, status>>

\* Process after FindPathTunnel has returned
ProcessReturn ==
  /\ pc = "Return"
  /\ status' = IF ret = "true" THEN "OK" ELSE "PLANNING_ERROR"
  /\ pc' = "done"
  /\ UNCHANGED <<inputVars, init_sl_point_, samplerVars, path_waypoints,
                 graphVars, min_cost_path, frenet_path, path_points, path_data,
                 decisionVars, ret>>

(* ---------------------------- specifications --------------------------- *)
\* one call of Process, end to end: at a station every candidate is on the
\* road or none is, every edge costs the same, and the decision pass gets
\* the answers named ...One
Next ==
  \/ Process
  \/ GraphInit
  \/ SampleBegin
  \/ SampleIter({{}, CandidateIndices})
  \/ SampleEnd
  \/ Build
  \/ RelaxNode({MaxCost})
  \/ LevelDone
  \/ FindBest
  \/ StitchPath
  \/ ConvertPoint
  \/ ConvertDone
  \/ ProjectEgo(EgoFrenetOne)
  \/ StaticObstacle(ObstacleFrenetOne, HalfLengthsOne, NoneOrAll(ego_bounding_box))
  \/ DynamicBegin({1})
  \/ DynamicObstacle({{}, {0}})
  \/ DecideDone
  \/ ProcessReturn

Spec == Init /\ [][Next]_vars

\* Process up to the return of SamplePathWaypoints, with every answer of
\* is_on_road
NextSampler ==
  \/ Process
  \/ GraphInit
  \/ SampleBegin
  \/ SampleIter(SUBSET CandidateIndices)
  \/ SampleEnd

SpecSampler == Init /\ [][NextSampler]_vars

\* Process up to the return of Generate, with every answer of is_on_road and
\* every cost in 0..MaxCost on every edge
NextGraph ==
  \/ Process
  \/ GraphInit
  \/ SampleBegin
  \/ SampleIter(SUBSET CandidateIndices)
  \/ SampleEnd
  \/ Build
  \/ RelaxNode(0..MaxCost)
  \/ LevelDone
  \/ FindBest

SpecGraph == Init /\ [][NextGraph]_vars

\* compute_object_decision_from_path alone: the path handed to it has
\* 0..MaxPathPoints points
DecideEntry ==
  /\ pc = "Decide"
  /\ is_init_ = TRUE
  /\ config_ = [sample_level |-> 1, sample_points_num_each_level |-> 1,
                path_resolution |-> 1]
  /\ init_point = [v |-> 0, proj |-> [ok |-> TRUE, sl |-> DefaultSL]]
  /\ \E n \in 0..MaxPathPoints :
       path_data = [frenet_set |-> TRUE, frenet_path |-> <<>>,
                    discretized_set |-> TRUE,
                    discretized_path |-> [k \in 1..n |-> PathPoint(k)]]

\* the pass over static obstacles, with every answer of the projections and
\* of has_overlap; there is no dynamic obstacle
InitDecide ==
  /\ DecideEntry
  /\ \E n_static \in 0..MaxStaticObstacles : Fresh(n_static, 0)

NextDecide ==
  \/ ProjectEgo(EgoFrenet)
  \/ StaticObstacle(ObstacleFrenet, HalfLengths, SUBSET BoxesOf(ego_bounding_box))
  \/ DynamicBegin({0})
  \/ DecideDone

SpecDecide == InitDecide /\ [][NextDecide]_vars

\* the pass over dynamic obstacles, with every answer of the speed profile
\* and of distance_to; there is no static obstacle
InitFollow ==
  /\ DecideEntry
  /\ \E n_dynamic \in 0..MaxDynamicObstacles : Fresh(0, n_dynamic)

NextFollow ==
  \/ ProjectEgo(EgoFrenetOne)
  \/ DynamicBegin(0..MaxEvaluateTimes)
  \/ DynamicObstacle(SUBSET (0..speed.evaluate_times))
  \/ DecideDone

SpecFollow == InitFollow /\ [][NextFollow]_vars

(* -------------------------------- claims ------------------------------- *)
NoDecisionAppended ==
  /\ \A i \in 1..Len(static_obstacles) : static_obstacles[i].decisions = <<>>
  /\ \A i \in 1..Len(dynamic_obstacles) : dynamic_obstacles[i].decisions = <<>>

\* C1: whenever FindPathTunnel has returned false, at whatever stage, the
\* output path container is as it was before the call: neither its Frenet
\* path nor its discretized path has been set.
C1_FailureLeavesPathData == ret = "false" => path_data = EmptyPathData

\* C2: if the initial position cannot be projected onto the reference line,
\* FindPathTunnel returns false straight from Init, the path container is
\* never mutated, no decision is appended to any obstacle, and Process
\* returns a planning error.
C2_InitProjectionFailure ==
  (is_init_ /\ ~init_point.proj.ok) =>
    /\ pc \in {"Process", "Init", "Return", "done"}
    /\ path_data = EmptyPathData
    /\ NoDecisionAppended
    /\ pc \in {"Return", "done"} => ret = "false"
    /\ pc = "done" => status = "PLANNING_ERROR"

\* C2 witness: Process has returned after the projection failed in Init
C2_Witness ==
  /\ is_init_ /\ ~init_point.proj.ok
  /\ pc = "done" /\ ret = "false" /\ status = "PLANNING_ERROR"

\* C3: when the sampler produced zero levels, so that the chain of Generate
\* is empty or the root alone, FindPathTunnel returns false.
C3_ZeroLevelsFail ==
  (is_init_ /\ pc \in {"Return", "done"} /\ Len(min_cost_path) <= 1)
    => ret = "false"

(* the static pass, stated per scan index j of a scanned obstacle o *)
\* obs_sl as the scan reads it
ScanObsSL(o) == IF o.proj_ok THEN o.proj_sl ELSE SLPoint(0, 0)
\* ego_sl_points[j] lies in [obs_sl.s - half_length, obs_sl.s + half_length]
InSInterval(o, j) ==
  /\ ego_sl_points[j].s >= ScanObsSL(o).s - o.half_length
  /\ ego_sl_points[j].s <= ScanObsSL(o).s + o.half_length
\* the obstacle's box overlaps the ego box tested at index j
OverlapAt(o, j) == ego_bounding_box[j] \in o.overlap
DiffL(o, j) == ScanObsSL(o).l - ego_sl_points[j].l
BelowStopBuffer(o) ==
  /\ ScanObsSL(o).l < StaticDecisionStopBuffer
  /\ ScanObsSL(o).l > 0 - StaticDecisionStopBuffer
StopAt(o, j) == InSInterval(o, j) /\ OverlapAt(o, j) /\ BelowStopBuffer(o)
NudgeRightAt(o, j) ==
  /\ InSInterval(o, j) /\ ~StopAt(o, j)
  /\ 0 < DiffL(o, j) /\ DiffL(o, j) < StaticDecisionIgnoreRange
NudgeLeftAt(o, j) ==
  /\ InSInterval(o, j) /\ ~StopAt(o, j)
  /\ DiffL(o, j) < 0 /\ 0 - StaticDecisionIgnoreRange < DiffL(o, j)
QualifiesAt(o, j) == StopAt(o, j) \/ NudgeRightAt(o, j) \/ NudgeLeftAt(o, j)
ScanIndices == 1..Len(ego_sl_points)
Scanned == {i \in 1..Len(static_obstacles) : static_obstacles[i].scanned}

\* C4: a dynamic obstacle for which the speed profile answered at every
\* evaluation time and whose box is closer than the follow range to the ego
\* box at some evaluated time sample gets exactly one Follow decision.
C4_FollowWhenClose ==
  \A i \in 1..Len(dynamic_obstacles) :
    LET o == dynamic_obstacles[i]
    IN (/\ o.judged
        /\ speed.fail_at = speed.evaluate_times
        /\ \E k \in 0..(speed.evaluate_times - 1) : k \in o.close)
       => o.decisions = <<ObjectFollow>>

\* C5 as stated: a static obstacle below the stop buffer that overlaps the ego
\* box at some in-range scan index gets exactly one Stop and nothing else,
\* whatever the earlier samples are.
C5_StopRegardlessOfEarlier ==
  \A i \in Scanned :
    LET o == static_obstacles[i]
    IN (\E j \in ScanIndices : StopAt(o, j)) => o.decisions = <<ObjectStop>>

\* C5 amended: such an obstacle gets exactly one decision and never Ignore;
\* the decision is Stop when no earlier in-range scan index qualifies for a
\* nudge, and otherwise it is the Nudge of that earlier index.
C5_StopUnlessEarlierNudge ==
  \A i \in Scanned :
    LET o == static_obstacles[i]
        EarlierNudge(j) ==
          \E k \in 1..(j - 1) : NudgeRightAt(o, k) \/ NudgeLeftAt(o, k)
    IN (\E j \in ScanIndices : StopAt(o, j)) =>
         /\ Len(o.decisions) = 1
         /\ o.decisions[1].type \in {"stop", "nudge"}
         /\ (\E j \in ScanIndices : StopAt(o, j) /\ ~EarlierNudge(j))
              => o.decisions = <<ObjectStop>>
         /\ (\A j \in ScanIndices : StopAt(o, j) => EarlierNudge(j))
              => o.decisions[1].type = "nudge"

\* C5 witness: the stop-qualifying index is the second one scanned and the
\* first one, in range too, qualifies for nothing
C5_Witness ==
  \E i \in Scanned :
    LET o == static_obstacles[i]
    IN /\ Len(ego_sl_points) >= 2
       /\ InSInterval(o, 1) /\ ~QualifiesAt(o, 1)
       /\ StopAt(o, 2)
       /\ o.decisions = <<ObjectStop>>

\* C8: a static obstacle whose centre could not be projected gets no Stop
\* and no Nudge decision.
C8_NoDecisionFromFailedProjection ==
  \A i \in Scanned :
    LET o == static_obstacles[i]
    IN ~o.proj_ok =>
         \A n \in 1..Len(o.decisions) : o.decisions[n].type \notin {"stop", "nudge"}

\* C9: every scanned static obstacle has got exactly one decision: that of
\* the first scan index that qualifies (Stop, Nudge-right or Nudge-left),
\* and Ignore if and only if no scan index qualifies.
C9_OneDecisionFirstQualifying ==
  \A i \in Scanned :
    LET o == static_obstacles[i]
        first == CHOOSE j \in ScanIndices :
                   QualifiesAt(o, j) /\ \A k \in 1..(j - 1) : ~QualifiesAt(o, k)
    IN IF \E j \in ScanIndices : QualifiesAt(o, j)
       THEN o.decisions =
              << IF StopAt(o, first) THEN ObjectStop
                 ELSE IF NudgeRightAt(o, first) THEN ObjectNudge("RIGHT_NUDGE")
                 ELSE ObjectNudge("LEFT_NUDGE") >>
       ELSE o.decisions = <<ObjectIgnore>>

\* C9 witness: the first sample does not qualify, the second one decides
C9_Witness ==
  \E i \in Scanned :
    LET o == static_obstacles[i]
    IN /\ Len(ego_sl_points) >= 2
       /\ ~QualifiesAt(o, 1) /\ NudgeRightAt(o, 2)
       /\ o.decisions = <<ObjectNudge("RIGHT_NUDGE")>>

(* the lattice, stated on graph_nodes and calc *)
\* the root-to-last-level chains: one node index per level
LatticeChains ==
  LET n == Len(graph_nodes)
      w == CHOOSE m \in 1..(2 * MaxSamplePoints + 1) :
             \A k \in 1..n : Len(graph_nodes[k]) <= m
  IN {c \in [1..n -> 1..w] : \A k \in 1..n : c[k] <= Len(graph_nodes[k])}

RECURSIVE ChainCost(_, _)
\* the sum of the edge costs of the first k nodes of the chain c
ChainCost(c, k) ==
  IF k <= 1 THEN 0 ELSE ChainCost(c, k - 1) + calc[k][c[k]][c[k - 1]]

\* the synthetic sink of "find best path"
Sink == FakeHead(graph_nodes[Len(graph_nodes)],
                 Len(graph_nodes[Len(graph_nodes)]))

\* the node indices of min_cost_path, read off the back-pointers
ChainIndices ==
  [k \in 1..Len(min_cost_path) |->
     IF k = Len(min_cost_path) THEN Sink.prev ELSE min_cost_path[k + 1].prev]

\* C6: every relaxed node's min_cost is the minimum over its predecessors p
\* of edge_cost(p, node) + p.min_cost; the chain returned by Generate starts
\* at the root, has one node per level linked by the back-pointers, and the
\* sum of its edge costs is the sink's min_cost, the minimum of that sum
\* over all root-to-last-level chains.
C6_ChainIsMinCost ==
  /\ pc \in {"Relax", "Stitch"} =>
       \A lv \in 2..Len(graph_nodes) : \A i \in 1..Len(graph_nodes[lv]) :
         LET node == graph_nodes[lv][i]
             prevs == graph_nodes[lv - 1]
         IN /\ node.has_cost /\ node.prev \in 1..Len(prevs)
            /\ node.min_cost = calc[lv][i][node.prev] + prevs[node.prev].min_cost
            /\ \A j \in 1..Len(prevs) :
                 node.min_cost <= calc[lv][i][j] + prevs[j].min_cost
  /\ pc = "Stitch" =>
       LET n == Len(graph_nodes)
       IN /\ Len(min_cost_path) = n
          /\ min_cost_path[1] = graph_nodes[1][1]
          /\ min_cost_path[1].sl_point = init_sl_point_
          /\ min_cost_path[1].prev = 0 /\ min_cost_path[1].min_cost = 0
          /\ \A k \in 1..n :
               /\ ChainIndices[k] \in 1..Len(graph_nodes[k])
               /\ min_cost_path[k] = graph_nodes[k][ChainIndices[k]]
          /\ ChainCost(ChainIndices, n) = Sink.min_cost
          /\ \A c \in LatticeChains : Sink.min_cost <= ChainCost(c, n)

\* C6 witness: two sampled levels of several nodes, a chain that costs
\* something and does not go through the first node of each level
C6_Witness ==
  /\ pc = "Stitch" /\ Len(graph_nodes) = 3
  /\ Len(graph_nodes[2]) >= 2 /\ Len(graph_nodes[3]) >= 2
  /\ Sink.min_cost > 0
  /\ ChainIndices[2] # 1 /\ ChainIndices[3] # 1

\* C7: every level returned by SamplePathWaypoints is non-empty, each of its
\* points has been answered on-road, and there are at most sample_level
\* levels.
C7_LevelsOnRoad ==
  pc \in {"SampleLoop", "Build"} =>
    /\ Len(path_waypoints) <= config_.sample_level
    /\ \A k \in 1..Len(path_waypoints) :
         /\ path_waypoints[k] # <<>>
         /\ \A i \in 1..Len(path_waypoints[k]) : path_waypoints[k][i] \in road

\* C7 witness: two stations sampled, one of them dropped, and at the other
\* one some candidate filtered out
C7_Witness ==
  /\ pc = "Build" /\ sample_i = 2
  /\ Len(path_waypoints) = 1
  /\ Len(path_waypoints[1]) < Len(candidates)

\* C10 as stated: exactly sample_points_num_each_level candidates are
\* generated at a station, and no level holds more points than that.
C10_ExactlyConfiguredCount ==
  (pc = "SampleLoop" /\ sample_i > 0) =>
    /\ Len(candidates) = config_.sample_points_num_each_level
    /\ \A k \in 1..Len(path_waypoints) :
         Len(path_waypoints[k]) <= config_.sample_points_num_each_level

\* 2 * floor(count / 2) + 1: count when it is odd, count + 1 when it is even
SymmetricCount(count) == IF count % 2 = 1 THEN count ELSE count + 1

\* C10 amended: 2 * floor(sample_points_num_each_level / 2) + 1 candidates
\* are generated at a station, and no level holds more points than that.
C10_SymmetricCount ==
  (pc = "SampleLoop" /\ sample_i > 0) =>
    /\ Len(candidates) = SymmetricCount(config_.sample_points_num_each_level)
    /\ \A k \in 1..Len(path_waypoints) :
         Len(path_waypoints[k])
           <= SymmetricCount(config_.sample_points_num_each_level)

\* C10 witness: an even count, and a level that holds count + 1 points
C10_Witness ==
  /\ pc = "SampleLoop" /\ sample_i > 0
  /\ config_.sample_points_num_each_level % 2 = 0
  /\ \E k \in 1..Len(path_waypoints) :
       Len(path_waypoints[k]) = config_.sample_points_num_each_level + 1

\* the station of node i of the optimal chain and the length of the segment
\* that ends at node i
ChainS(i) == min_cost_path[i].sl_point.s
SegmentLength(i) == ChainS(i) - ChainS(i - 1)
StationsIncrease ==
  \A i \in 2..Len(min_cost_path) : ChainS(i - 1) < ChainS(i)
\* the stations segment i is to emit: the start of the segment plus the
\* multiples of path_resolution that are strictly less than its length
SegmentStations(i) ==
  {ChainS(i - 1) + k * PathResolution :
     k \in {k \in 0..SegmentLength(i) : k * PathResolution < SegmentLength(i)}}

\* C11: with path_resolution > 0 and a chain whose stations strictly
\* increase, the stitched Frenet path holds, for each segment, exactly the
\* stations start + 0, r, 2r, ... strictly before the segment's end, each
\* segment starting at the station of its first node; its s values strictly
\* increase, start at the initial projected s and are all strictly before the
\* goal node's s.
C11_StitchedStations ==
  (path_data.frenet_set /\ PathResolution > 0 /\ StationsIncrease) =>
    LET F == path_data.frenet_path
        n == Len(min_cost_path)
    IN /\ \A i \in 2..n :
            {F[k].s : k \in {k \in DOMAIN F : /\ ChainS(i - 1) <= F[k].s
                                              /\ F[k].s < ChainS(i)}}
              = SegmentStations(i)
       /\ \A k \in DOMAIN F :
            \E i \in 2..n : ChainS(i - 1) <= F[k].s /\ F[k].s < ChainS(i)
       /\ \A k \in 1..(Len(F) - 1) : F[k].s < F[k + 1].s
       /\ n >= 2 => (F # <<>> /\ F[1].s = init_sl_point_.s)
       /\ n < 2 => F = <<>>
       /\ \A k \in DOMAIN F : F[k].s < ChainS(n)

\* C11 witness: a stitched chain of two segments, one of them with a length
\* that is no multiple of path_resolution, and at least two samples emitted
C11_Witness ==
  /\ path_data.frenet_set /\ StationsIncrease
  /\ Len(min_cost_path) >= 3
  /\ \E i \in 2..Len(min_cost_path) : SegmentLength(i) % PathResolution # 0
  /\ Len(path_data.frenet_path) >= 2

\* the scan of obstacle o reaches index j and tests the box there: the sample
\* is within the s-interval and no earlier index has ended the scan
TestedAt(o, j) ==
  /\ InSInterval(o, j)
  /\ \A k \in 1..(j - 1) : ~QualifiesAt(o, k)

\* C12: in the pass over static obstacles, the ego box tested for overlap at
\* scan index j was built from the same discretized path point as the Frenet
\* sample ego_sl_points[j] used for the s-range and lateral-gap tests, for
\* every path, failed projections of ego path points included.
C12_BoxOfSamePathPoint ==
  \A i \in Scanned :
    \A j \in ScanIndices :
      TestedAt(static_obstacles[i], j) => ego_bounding_box[j] = ego_sl_src[j]

====
